---- MODULE Spec2Model ----
(***************************************************************************)
(* A model of dimclient.DimClient (src/dimclient/dimclient/__init__.py):   *)
(* the session lifecycle (login, logged_in, verify_logged_in_username,     *)
(* login_prompt, purge_cookies, the cookie file), the JSON-RPC invoker     *)
(* (raw_call, call, __getattr__) and the pagination helper (ip_list_all).  *)
(*                                                                         *)
(* The client is single-threaded and synchronous, so every public          *)
(* operation is one atomic action; ip_list_all, whose loop talks to the    *)
(* server once per iteration, is one action per iteration.  The DIM server *)
(* and the file system are the environment.                                *)
(***************************************************************************)
EXTENDS Integers, Sequences, FiniteSets, TLC

VARIABLES
    server_url,    \* client: self.server_url, as urlparse splits it
    srvVersion,    \* server: the value its protocol_version method returns
    srvFault,      \* server: the failure it is configured to show, if any
    srvReply,      \* server: canned body of the /jsonrpc endpoint, or Auto
    srvList,       \* server: the addresses it holds and how ip_list pages them
    sessions,      \* server: session token -> user it belongs to, or NoUser
    username,      \* client: self.username
    jar,           \* client: self.cookie_jar (in memory)
    cookie_file,   \* client: self.cookie_jar.filename is set
    cookie_umask,  \* client: self.cookie_umask (NoUmask for None)
    fs,            \* the cookie file on disk
    umask,         \* the process umask
    last,          \* the operation that completed last, with what it did
    lst            \* ip_list_all: the frame of the running call

vars == <<server_url, srvVersion, srvFault, srvReply, srvList, sessions, username, jar, cookie_file,
          cookie_umask, fs, umask, last, lst>>

-----------------------------------------------------------------------------
(* Program constant and the bounds of the model *)

PROTOCOL_VERSION == 17

MaxTok == 2
Tokens == 1..MaxTok
Users == {"alice", "bob"}
NoUser == "-"
Expired == "expired"
Passwords == {"pa", "pb"}
Versions == {16, 17, 18}

-----------------------------------------------------------------------------
(* JSON values, as json.loads returns them: a tag and a payload *)

JNull == <<"null", 0>>
JBool(b) == <<"bool", b>>
JInt(n) == <<"int", n>>
JStr(s) == <<"str", s>>
JList(s) == <<"list", s>>
JObj(f) == <<"dict", f>>

-----------------------------------------------------------------------------
(* Cookies.  A cookie the server sends without Expires/Max-Age is a        *)
(* session cookie: http.cookiejar marks it discard.                        *)

(* The jar keys a cookie by domain, path and name; a cookie sent without  *)
(* a Domain attribute is stored under the effective request host.  The     *)
(* server URLs of the model have no path, so every cookie has path "/".    *)

NoCookie == [value |-> 0, discard |-> FALSE, domain |-> <<>>]
Cookie(t, d) == [value |-> t, discard |-> d, domain |-> <<>>]
EmptyJar == [session |-> NoCookie]

\* server_url: the labels of its host name
Dotted == [hostname |-> <<"dim", "example", "com">>]
Dotless == [hostname |-> <<"localhost">>]
Urls == {Dotted, Dotless}

\* http.cookiejar.eff_request_host: a host name without a dot gets ".local"
eff_request_host(url) ==
    IF Len(url.hostname) = 1 THEN url.hostname \o <<"local">> ELSE url.hostname

(* File permission bits as sets; a umask is the set of bits it clears. *)
Mode600 == {"ur", "uw"}
Mode644 == {"ur", "uw", "gr", "or"}
Umask022 == {"gw", "ow"}
Umask077 == {"gr", "gw", "gx", "or", "ow", "ox"}
NoUmask == {"none"}

\* writable: open(filename, O_WRONLY|O_CREAT|O_TRUNC) would succeed
NoFile == [exists |-> FALSE, cookies |-> EmptyJar, mode |-> {}, writable |-> TRUE]

-----------------------------------------------------------------------------
(* Outcomes of an operation: a returned value or a raised exception *)

Ret(v) == [kind |-> "return", val |-> v, exc |-> "", why |-> "",
           cause |-> "", code |-> 0, server |-> JNull, client |-> 0]
Raise(e, text, c) == [kind |-> "raise", val |-> JNull, exc |-> e, why |-> "",
           cause |-> text, code |-> c, server |-> JNull, client |-> 0]

\* str(e) of an exception, as "%s" % e renders it
StatusText(code) ==
    CASE code = 401 -> "HTTP Error 401: Unauthorized"
      [] code = 403 -> "HTTP Error 403: Forbidden"
      [] code = 404 -> "HTTP Error 404: Not Found"
      [] code = 500 -> "HTTP Error 500: Internal Server Error"
      [] OTHER -> "HTTP Error"

-----------------------------------------------------------------------------
(* The server, seen from the client: three HTTP endpoints.  A response is  *)
(* a status (0: no HTTP response at all, the connection failed), the       *)
(* session cookie of its Set-Cookie header, and a body.                    *)

Auto == [kind |-> "auto", status |-> 200, keys |-> {}, message |-> "",
         code |-> 0, result |-> JNull]
HttpBody(st) == [kind |-> "http", status |-> st, keys |-> {}, message |-> "",
         code |-> 0, result |-> JNull]
Garbage == [kind |-> "garbage", status |-> 200, keys |-> {}, message |-> "",
         code |-> 0, result |-> JNull]
Envelope(ks, m, c, r) == [kind |-> "envelope", status |-> 200, keys |-> ks,
         message |-> m, code |-> c, result |-> r]

Resp(st, ck, b) == [status |-> st, set |-> ck, body |-> b]

Valid(s, t) == t \in Tokens /\ s[t] \in Users

\* POST /login: form fields username, password, permanent_session
LoginEndpoint(u, p, t, d) ==
    CASE srvFault = "login_url" -> Resp(0, NoCookie, Garbage)
      [] srvFault = "login_http" -> Resp(500, NoCookie, Garbage)
      [] OTHER -> IF u \in Users /\ p = (IF u = "alice" THEN "pa" ELSE "pb")
                  THEN Resp(200, Cookie(t, d), Garbage)
                  ELSE Resp(401, NoCookie, Garbage)

\* GET /index.html with the session cookie
IndexEndpoint(s, t) ==
    CASE srvFault = "index_http" -> Resp(500, NoCookie, Garbage)
      [] srvFault = "index_url" -> Resp(0, NoCookie, Garbage)
      [] OTHER -> IF Valid(s, t) THEN Resp(200, NoCookie, Garbage)
                  ELSE Resp(403, NoCookie, Garbage)

\* the paged listing: n addresses 1..n, at most batch per call; the server
\* honours the limit and the after cursor of the options ("honour"), ignores
\* the limit ("fixed"), or ignores both ("repeat")
NoList == [n |-> 0, batch |-> 1, mode |-> "honour"]

Min(a, b) == IF a < b THEN a ELSE b
Max(a, b) == IF a > b THEN a ELSE b

HasKey(obj, k) == \E kv \in obj : kv[1] = k
Get(obj, k) == (CHOOSE kv \in obj : kv[1] = k)[2]

Item(i) == JObj({<<"ip", JInt(i)>>})

IpList(params) ==
    LET opts == IF Len(params) > 0 /\ params[Len(params)][1] = "dict"
                THEN params[Len(params)][2] ELSE {}
        start == IF srvList.mode # "repeat" /\ HasKey(opts, "after")
                 THEN Get(opts, "after")[2] ELSE 0
        want == IF srvList.mode = "honour" /\ HasKey(opts, "limit")
                THEN Min(Max(Get(opts, "limit")[2], 0), srvList.batch)
                ELSE srvList.batch
        k == Max(Min(want, srvList.n - start), 0)
    IN  JList([i \in 1..k |-> Item(start + i)])

\* what the server's own methods answer on /jsonrpc
MethodResult(s, t, method, params) ==
    CASE method = "protocol_version" -> Envelope({"result"}, "", 0, JInt(srvVersion))
      [] method = "get_username" -> Envelope({"result"}, "", 0, JStr(s[t]))
      [] method = "ip_list" -> Envelope({"result"}, "", 0, IpList(params))
      [] OTHER -> Envelope({"error"}, "unknown method", 1, JNull)

\* POST /jsonrpc
RpcEndpoint(s, t, method, params) ==
    CASE srvReply.kind = "http" -> Resp(srvReply.status, NoCookie, Garbage)
      [] srvReply.kind = "garbage" -> Resp(200, NoCookie, Garbage)
      [] srvReply.kind = "envelope" -> Resp(200, NoCookie, srvReply)
      [] OTHER -> IF Valid(s, t) THEN Resp(200, NoCookie, MethodResult(s, t, method, params))
                  ELSE Resp(403, NoCookie, Garbage)

-----------------------------------------------------------------------------
(* The client's world while one operation runs: its own state, the file    *)
(* system, the server's sessions, and a log of what the operation did.     *)

World == [jar |-> jar, fs |-> fs, umask |-> umask, username |-> username,
          sessions |-> sessions, reqs |-> <<>>, prompts |-> <<>>,
          purges |-> 0, saves |-> 0]

\* HTTPCookieProcessor.http_response: cookies are taken from every response
extract_cookies(j, resp) ==
    IF resp.set = NoCookie THEN j
    ELSE [j EXCEPT !.session = [resp.set EXCEPT !.domain = eff_request_host(server_url)]]

\* self.session.open(...): one request, one response; urllib raises
\* URLError when there is no response and HTTPError on a non-2xx status
Open(w, ep, method, params, resp) ==
    LET req == [ep |-> ep, method |-> method, params |-> params,
                cookie |-> w.jar.session.value, status |-> resp.status]
        w1 == [w EXCEPT !.reqs = Append(@, req)]
    IN  IF resp.status = 0
        THEN [w |-> w1, out |-> Raise("URLError", "connection refused", 0)]
        ELSE LET w2 == [w1 EXCEPT !.jar = extract_cookies(@, resp)]
             IN  IF resp.status \in 200..299
                 THEN [w |-> w2, out |-> Ret(JNull)]
                 ELSE [w |-> w2, out |-> Raise("HTTPError", StatusText(resp.status),
                                               resp.status)]

\* LWPCookieJar.save() with its defaults: discard cookies are not written
lwp_str(j) == [session |-> IF j.session.discard THEN NoCookie ELSE j.session]

\* LWPCookieJar.save(): creates the file with mode 0600 under the umask in
\* effect, or truncates an existing file and leaves its mode alone
\* effect; it raises PermissionError (an OSError) when the file cannot be
\* opened for writing, and then changes nothing
save(w) ==
    IF w.fs.writable
    THEN [w |-> [w EXCEPT !.fs = [exists |-> TRUE, cookies |-> lwp_str(w.jar),
                                  mode |-> IF w.fs.exists THEN w.fs.mode
                                           ELSE Mode600 \ w.umask,
                                  writable |-> TRUE],
                          !.saves = @ + 1],
          out |-> Ret(JNull)]
    ELSE [w |-> [w EXCEPT !.saves = @ + 1],
          out |-> Raise("PermissionError", "Permission denied", 13)]

\* mutant: the save is forgotten
update_cookie_file_skipped(w) == [w |-> w, out |-> Ret(JNull)]

\* the umask is restored by the statement after save(): an exception out of
\* save() leaves the function before it
update_cookie_file(w) ==
    IF cookie_file
    THEN LET old_mask == w.umask
             w1 == IF cookie_umask # NoUmask
                   THEN [w EXCEPT !.umask = cookie_umask] ELSE w
             s == save(w1)
         IN  IF s.out.kind = "raise" THEN s
             ELSE IF cookie_umask # NoUmask
             THEN [w |-> [s.w EXCEPT !.umask = old_mask], out |-> s.out]
             ELSE s
    ELSE [w |-> w, out |-> Ret(JNull)]

\* LWPCookieJar.load() inside try/except: a missing file leaves the jar empty
use_cookie_file(f) == IF f.exists THEN lwp_str(f.cookies) ELSE EmptyJar

\* cookie_jar.clear(urlparse(server_url).hostname, path, 'session'): KeyError,
\* raised when the jar has no such domain, path or name, is swallowed
purge_cookies(w) ==
    [w EXCEPT !.jar = IF w.jar.session # NoCookie
                         /\ w.jar.session.domain = server_url.hostname
                      THEN [@ EXCEPT !.session = NoCookie] ELSE @,
              !.purges = @ + 1]

-----------------------------------------------------------------------------
(* RPC invoker *)

\* mutant: the server's code is dropped (DimError's default code)
decode_default_code(body) ==
    IF body.kind # "envelope" THEN Raise("JSONDecodeError", "Expecting value", 0)
    ELSE IF "error" \in body.keys THEN Raise("DimError", body.message, 1)
    ELSE IF "result" \in body.keys THEN Ret(body.result)
    ELSE Raise("KeyError", "'result'", 0)

\* the part of raw_call after json.loads
decode(body) ==
    IF body.kind # "envelope" THEN Raise("JSONDecodeError", "Expecting value", 0)
    ELSE IF "error" \in body.keys THEN Raise("DimError", body.message, body.code)
    ELSE IF "result" \in body.keys THEN Ret(body.result)
    ELSE Raise("KeyError", "'result'", 0)

\* mutant: a failed request is sent a second time
raw_call_retries(w, function, args) ==
    LET resp == RpcEndpoint(w.sessions, w.jar.session.value, function, args)
        o1 == Open(w, "/jsonrpc", function, args, resp)
        o == IF o1.out.kind = "raise" THEN Open(o1.w, "/jsonrpc", function, args, resp)
             ELSE o1
    IN  IF o.out.kind = "raise" THEN o
        ELSE [w |-> o.w, out |-> decode(resp.body)]

raw_call(w, function, args) ==
    LET resp == RpcEndpoint(w.sessions, w.jar.session.value, function, args)
        o == Open(w, "/jsonrpc", function, args, resp)
    IN  IF o.out.kind = "raise" THEN o
        ELSE [w |-> o.w, out |-> decode(resp.body)]

\* mutant: the kwargs mapping is appended even when it is empty
call_always_appends(w, function, args, kwargs) ==
    raw_call(w, function, Append(args, JObj(kwargs)))

\* call(function, *args, **kwargs); kwargs is a set of <<key, value>> pairs
call(w, function, args, kwargs) ==
    LET passed_args == IF kwargs # {} THEN Append(args, JObj(kwargs)) ELSE args
    IN  raw_call(w, function, passed_args)

\* the names Python finds on the class or the instance: __getattr__ is
\* consulted for every other name only
Defined == {"login", "logged_in", "verify_logged_in_username", "purge_cookies",
            "login_prompt", "check_protocol_version", "raw_call", "call",
            "ip_list_all", "server_url", "username", "cookie_jar", "session"}

\* self.<name>(*args, **kwargs) for a name that is not Defined
getattr_call(w, name, args, kwargs) == call(w, name, args, kwargs)

\* mutant: the failure of the call is not wrapped
check_protocol_version_unwrapped(w) ==
    LET r == getattr_call(w, "protocol_version", <<>>, {})
    IN  IF r.out.kind = "raise" THEN r
        ELSE IF r.out.val # JInt(PROTOCOL_VERSION)
        THEN [w |-> r.w, out |-> [Raise("ProtocolError", "", 1)
                                   EXCEPT !.why = "mismatch",
                                          !.server = r.out.val,
                                          !.client = PROTOCOL_VERSION]]
        ELSE [w |-> r.w, out |-> Ret(JNull)]

check_protocol_version(w) ==
    LET r == getattr_call(w, "protocol_version", <<>>, {})
    IN  IF r.out.kind = "raise"
        THEN [w |-> r.w, out |-> [Raise("ProtocolError", r.out.cause, 1)
                                   EXCEPT !.why = "no_jsonrpc"]]
        ELSE IF r.out.val # JInt(PROTOCOL_VERSION)
        THEN [w |-> r.w, out |-> [Raise("ProtocolError", "", 1)
                                   EXCEPT !.why = "mismatch",
                                          !.server = r.out.val,
                                          !.client = PROTOCOL_VERSION]]
        ELSE [w |-> r.w, out |-> Ret(JNull)]

-----------------------------------------------------------------------------
(* Session manager *)

\* mutant: except Exception
login_except_all(out) == Ret(JBool(FALSE))

\* login's handler: except HTTPError -> return False; anything else propagates
login_except(out) == IF out.exc = "HTTPError" THEN Ret(JBool(FALSE)) ELSE out

\* mutant: the username is stored before the protocol check
login_username_first(w, u, p, perm, t, d) ==
    LET w0 == purge_cookies(w)
        resp == LoginEndpoint(u, p, t, d)
        w1 == IF resp.status = 200
              THEN [w0 EXCEPT !.sessions = [@ EXCEPT ![t] = u]] ELSE w0
        o == Open(w1, "/login", "", <<JStr(u), JStr(p), JBool(perm)>>, resp)
    IN  IF o.out.kind = "raise" THEN [w |-> o.w, out |-> login_except(o.out)]
        ELSE LET c == check_protocol_version([o.w EXCEPT !.username = u])
             IN  IF c.out.kind = "raise" THEN [w |-> c.w, out |-> login_except(c.out)]
                 ELSE LET s == update_cookie_file(c.w)
                      IN  IF s.out.kind = "raise"
                          THEN [w |-> s.w, out |-> login_except(s.out)]
                          ELSE [w |-> s.w, out |-> Ret(JBool(TRUE))]

\* t, d: the token and the discard flag of the cookie the server will issue
login(w, u, p, perm, t, d) ==
    LET w0 == purge_cookies(w)
        resp == LoginEndpoint(u, p, t, d)
        w1 == IF resp.status = 200
              THEN [w0 EXCEPT !.sessions = [@ EXCEPT ![t] = u]] ELSE w0
        o == Open(w1, "/login", "", <<JStr(u), JStr(p), JBool(perm)>>, resp)
    IN  IF o.out.kind = "raise" THEN [w |-> o.w, out |-> login_except(o.out)]
        ELSE LET c == check_protocol_version(o.w)
             IN  IF c.out.kind = "raise" THEN [w |-> c.w, out |-> login_except(c.out)]
                 ELSE LET s == update_cookie_file(c.w)
                      IN  IF s.out.kind = "raise"
                          THEN [w |-> s.w, out |-> login_except(s.out)]
                          ELSE [w |-> [s.w EXCEPT !.username = u],
                                out |-> Ret(JBool(TRUE))]

\* mutant: every HTTPError is read as "not logged in"
logged_in_any_status(w) ==
    LET o == Open(w, "/index.html", "", <<>>, IndexEndpoint(w.sessions, w.jar.session.value))
    IN  IF o.out.kind = "return"
        THEN LET s == update_cookie_file(o.w)
             IN  IF s.out.kind = "raise" THEN s
                 ELSE [w |-> s.w, out |-> Ret(JBool(TRUE))]
        ELSE IF o.out.exc = "HTTPError"
        THEN [w |-> o.w, out |-> Ret(JBool(FALSE))]
        ELSE o

logged_in(w) ==
    LET o == Open(w, "/index.html", "", <<>>, IndexEndpoint(w.sessions, w.jar.session.value))
    IN  IF o.out.kind = "return"
        THEN LET s == update_cookie_file(o.w)
             IN  IF s.out.kind = "raise" THEN s
                 ELSE [w |-> s.w, out |-> Ret(JBool(TRUE))]
        ELSE IF o.out.exc = "HTTPError" /\ o.out.code = 403
        THEN [w |-> o.w, out |-> Ret(JBool(FALSE))]
        ELSE o

\* mutant: the username is not compared
verify_logged_in_username_unchecked(w) ==
    LET l == logged_in(w)
    IN  IF l.out.kind = "raise" THEN l
        ELSE IF l.out.val = JBool(TRUE)
        THEN LET g == getattr_call(l.w, "get_username", <<>>, {})
             IN  IF g.out.kind = "raise" THEN g
                 ELSE [w |-> g.w, out |-> Ret(JBool(TRUE))]
        ELSE [w |-> l.w, out |-> Ret(JBool(FALSE))]

verify_logged_in_username(w) ==
    LET l == logged_in(w)
    IN  IF l.out.kind = "raise" THEN l
        ELSE IF l.out.val = JBool(TRUE)
        THEN LET g == getattr_call(l.w, "get_username", <<>>, {})
             IN  IF g.out.kind = "raise" THEN g
                 ELSE [w |-> g.w, out |-> Ret(JBool(JStr(l.w.username) = g.out.val))]
        ELSE [w |-> l.w, out |-> Ret(JBool(FALSE))]

\* mutant: ignore_cookie is not honoured
login_prompt_always_verifies(w, ua, pa, perm, ignore_cookie, ui, pi, t, d) ==
    LET v == verify_logged_in_username(w)
    IN  IF v.out.kind = "raise" THEN v
        ELSE IF v.out.val = JBool(TRUE) THEN v
        ELSE LET w1 == IF ua = NoUser
                       THEN [v.w EXCEPT !.prompts = Append(@, "Username: ")] ELSE v.w
                 w2 == IF pa = ""
                       THEN [w1 EXCEPT !.prompts = Append(@, "Password: ")] ELSE w1
             IN  login(w2, IF ua = NoUser THEN ui ELSE ua,
                       IF pa = "" THEN pi ELSE pa, perm, t, d)

\* ua, pa: the username and password arguments (NoUser, "" for None);
\* ui, pi: what the user types if prompted
login_prompt(w, ua, pa, perm, ignore_cookie, ui, pi, t, d) ==
    LET v == IF ignore_cookie THEN [w |-> w, out |-> Ret(JBool(FALSE))]
             ELSE verify_logged_in_username(w)
    IN  IF v.out.kind = "raise" THEN v
        ELSE IF v.out.val = JBool(TRUE) THEN v
        ELSE LET w1 == IF ua = NoUser
                       THEN [v.w EXCEPT !.prompts = Append(@, "Username: ")] ELSE v.w
                 w2 == IF pa = ""
                       THEN [w1 EXCEPT !.prompts = Append(@, "Password: ")] ELSE w1
             IN  login(w2, IF ua = NoUser THEN ui ELSE ua,
                       IF pa = "" THEN pi ELSE pa, perm, t, d)

-----------------------------------------------------------------------------
(* Actions: one per public operation of the client, plus the environment *)

NoArg == [u |-> NoUser, p |-> "", ignore |-> FALSE, name |-> "", args |-> <<>>,
          kwargs |-> {}]

\* the frame of ip_list_all: where it is, its locals, and what it has done
Idle == [pc |-> "idle", total |-> 0, options |-> {}, result |-> <<>>,
         batches |-> <<>>, reqs |-> <<>>, out |-> Ret(JNull)]

\* what a later record keeps of a login: how it ended, and whether the
\* session cookie it left in the jar is one that save() writes
Summary(l) == [op |-> l.op,
               how |-> IF l.out.kind = "return"
                       THEN (IF l.out.val = JBool(TRUE) THEN "True"
                             ELSE IF l.out.val = JBool(FALSE) THEN "False" ELSE "None")
                       ELSE (IF l.out.why # "" THEN l.out.why ELSE l.out.exc),
               persistent |-> jar.session # NoCookie /\ ~jar.session.discard,
               file |-> cookie_file]

\* The record of a probe or of a construction remembers the login right
\* before it, and a probe the construction in between: <<>> otherwise.
Before(op) ==
    IF op \notin {"logged_in", "new"} THEN <<>>
    ELSE IF last.op = "login" THEN <<Summary(last)>>
    ELSE IF last.op = "new" /\ op = "logged_in" THEN <<Summary(last)>> \o last.before
    ELSE <<>>

Record(op, arg, out, w) ==
    [op |-> op, arg |-> arg, out |-> out, reqs |-> w.reqs, prompts |-> w.prompts,
     purges |-> w.purges, saves |-> w.saves, was |-> username,
     before |-> Before(op)]

\* the token the server gives its next session: the first never issued
FreshTok(s) ==
    IF \E t \in Tokens : s[t] = NoUser
    THEN CHOOSE t \in Tokens : s[t] = NoUser /\ \A x \in Tokens : s[x] = NoUser => t <= x
    ELSE 0

\* the operation's effects become the new state, and the log its record
Commit(op, arg, r) ==
    /\ jar' = r.w.jar
    /\ fs' = r.w.fs
    /\ umask' = r.w.umask
    /\ username' = r.w.username
    /\ sessions' = r.w.sessions
    /\ last' = Record(op, arg, r.out, r.w)

Login ==
    \E u \in Users, p \in Passwords, d \in BOOLEAN :
        LET t == FreshTok(sessions) IN
        /\ LoginEndpoint(u, p, t, d).status = 200 => t # 0
        /\ Commit("login", [NoArg EXCEPT !.u = u, !.p = p],
                  login(World, u, p, FALSE, t, d))
        /\ UNCHANGED <<server_url, srvVersion, srvFault, srvReply, srvList, cookie_file, cookie_umask, lst>>

LoggedIn ==
    /\ Commit("logged_in", NoArg, logged_in(World))
    /\ UNCHANGED <<server_url, srvVersion, srvFault, srvReply, srvList, cookie_file, cookie_umask, lst>>

VerifyLoggedInUsername ==
    /\ Commit("verify_logged_in_username", NoArg, verify_logged_in_username(World))
    /\ UNCHANGED <<server_url, srvVersion, srvFault, srvReply, srvList, cookie_file, cookie_umask, lst>>

LoginPrompt ==
    \E ua \in {username, NoUser}, pa \in {"pa", ""}, ig \in BOOLEAN,
       ui \in Users, pi \in {"pa"}, d \in BOOLEAN :
        /\ ua # NoUser => ui = ua
        /\ LET t == FreshTok(sessions)
            u == IF ua = NoUser THEN ui ELSE ua
            p == IF pa = "" THEN pi ELSE pa
           IN
           /\ LoginEndpoint(u, p, t, d).status = 200 => t # 0
           /\ Commit("login_prompt", [NoArg EXCEPT !.u = ua, !.p = pa, !.ignore = ig],
                     login_prompt(World, ua, pa, FALSE, ig, ui, pi, t, d))
           /\ UNCHANGED <<server_url, srvVersion, srvFault, srvReply, srvList, cookie_file, cookie_umask, lst>>

PurgeCookies ==
    /\ Commit("purge_cookies", NoArg, [w |-> purge_cookies(World), out |-> Ret(JNull)])
    /\ UNCHANGED <<server_url, srvVersion, srvFault, srvReply, srvList, cookie_file, cookie_umask, lst>>

\* DimClient(server_url, username, cookie_file, cookie_umask): a new instance,
\* as a later run of the program makes one
NewClient ==
    \E u \in Users, cf \in BOOLEAN, cu \in {cookie_umask} :
        /\ username' = u
        /\ cookie_file' = cf
        /\ cookie_umask' = cu
        /\ jar' = IF cf THEN use_cookie_file(fs) ELSE EmptyJar
        /\ last' = Record("new", [NoArg EXCEPT !.u = u], Ret(JNull), World)
        /\ UNCHANGED <<server_url, srvVersion, srvFault, srvReply, srvList, sessions, fs, umask, lst>>

\* the server ends a session (timeout, logout elsewhere)
ServerExpire ==
    \E t \in Tokens :
        /\ Valid(sessions, t)
        /\ sessions' = [sessions EXCEPT ![t] = Expired]
        /\ last' = Record("expire", NoArg, Ret(JNull), World)
        /\ UNCHANGED <<server_url, srvVersion, srvFault, srvReply, srvList, username, jar, cookie_file,
                       cookie_umask, fs, umask, lst>>

-----------------------------------------------------------------------------
(* The session specification: a client against one server configuration *)

Faults == {<<"none", Auto>>, <<"login_http", Auto>>, <<"login_url", Auto>>,
           <<"index_http", Auto>>, <<"none", HttpBody(404)>>, <<"none", Garbage>>,
           <<"none", Envelope({"error"}, "not found", 3, JNull)>>}

Init ==
    /\ server_url = Dotted
    /\ srvVersion \in Versions
    /\ \E f \in Faults : srvFault = f[1] /\ srvReply = f[2]
    /\ srvList = NoList
    /\ sessions = [t \in Tokens |-> NoUser]
    /\ username \in Users
    /\ cookie_file \in BOOLEAN
    /\ cookie_umask = NoUmask
    /\ fs = NoFile
    /\ jar = EmptyJar
    /\ umask = Umask022
    /\ last = [op |-> "init", arg |-> NoArg, out |-> Ret(JNull), reqs |-> <<>>,
               prompts |-> <<>>, purges |-> 0, saves |-> 0, was |-> username,
               before |-> <<>>]
    /\ lst = Idle

Next ==
    \/ Login
    \/ LoggedIn
    \/ VerifyLoggedInUsername
    \/ LoginPrompt
    \/ PurgeCookies
    \/ NewClient
    \/ ServerExpire

Spec == Init /\ [][Next]_vars

-----------------------------------------------------------------------------
(* Reading the record of the last operation *)

Reqs == last.reqs
Returned(v) == last.out.kind = "return" /\ last.out.val = v
Raised(e) == last.out.kind = "raise" /\ last.out.exc = e
NoLoginRequest == \A i \in 1..Len(Reqs) : Reqs[i].ep # "/login"

\* the server is up and answers every endpoint as its methods define
Healthy == srvFault = "none" /\ srvReply = Auto

Accepts(u, p) == LoginEndpoint(u, p, 1, FALSE).status = 200

\* the record is a login whose POST to /login got a 2xx answer
LoginAccepted ==
    /\ last.op = "login"
    /\ Len(Reqs) >= 1 /\ Reqs[1].ep = "/login" /\ Reqs[1].status \in 200..299

\* the protocol_version call of that login completed and returned a value
VersionReported ==
    /\ LoginAccepted
    /\ Len(Reqs) = 2 /\ Reqs[2].status = 200 /\ srvReply = Auto

-----------------------------------------------------------------------------
(* C1: for every server that reports a protocol version other than 17,     *)
(* login raises the version-mismatch ProtocolError, and a logged_in probe  *)
(* issued right after that failed login does not return true.              *)
(* The code keeps the session cookie of the accepted login in the jar, so  *)
(* the second half fails.                                                  *)
C1_MismatchNotAuthenticated ==
    /\ (VersionReported /\ srvVersion # PROTOCOL_VERSION)
          => (Raised("ProtocolError") /\ last.out.why = "mismatch")
    /\ (/\ last.op = "logged_in"
        /\ last.before # <<>>
        /\ last.before[1].op = "login"
        /\ last.before[1].how = "mismatch")
          => ~Returned(JBool(TRUE))

-----------------------------------------------------------------------------
(* C2 as stated: on a healthy server speaking protocol 17 and a client     *)
(* with a cookie file, a login with accepted credentials returns true, a   *)
(* following probe returns true, and a fresh client on the same cookie     *)
(* file gets true from logged_in without a request to the login endpoint.  *)
C2_LoginThenProbe ==
    /\ (/\ last.op = "login" /\ Healthy /\ srvVersion = PROTOCOL_VERSION
        /\ Accepts(last.arg.u, last.arg.p))
          => Returned(JBool(TRUE))
    /\ (/\ last.op = "logged_in" /\ Healthy
        /\ last.before # <<>>
        /\ last.before[1].op = "login" /\ last.before[1].how = "True")
          => Returned(JBool(TRUE))

-----------------------------------------------------------------------------
(* C3: login returns false, without raising, when the request to the       *)
(* login endpoint ends in a non-2xx HTTP status, and in no other case does *)
(* it end without returning true and without raising.                      *)
HttpFailure(r) == r.status # 0 /\ r.status \notin 200..299

C3_LoginFalseOnlyOnHttpFailure ==
    last.op = "login" =>
        /\ Len(Reqs) >= 1 /\ Reqs[1].ep = "/login"
        /\ HttpFailure(Reqs[1]) => Returned(JBool(FALSE))
        /\ (last.out.kind = "return" /\ ~Returned(JBool(TRUE)))
              => (Returned(JBool(FALSE)) /\ HttpFailure(Reqs[1]) /\ Len(Reqs) = 1)
        /\ Reqs[1].status = 0 => Raised("URLError")

C3_Witness ==
    /\ last.op = "login" /\ Returned(JBool(FALSE))
    /\ Reqs[1].ep = "/login" /\ Reqs[1].status = 401

-----------------------------------------------------------------------------
(* C4: when the login endpoint accepts the credentials, login runs the     *)
(* protocol check; a protocol_version call that cannot be completed raises *)
(* the "interface not enabled" ProtocolError with the cause text, a        *)
(* completed call returning a value other than 17 raises the mismatch      *)
(* ProtocolError naming both versions, and login returns neither false nor *)
(* true in these cases.                                                    *)
CallFailed ==
    \/ Reqs[2].status # 200
    \/ srvReply.kind = "garbage"
    \/ (srvReply.kind = "envelope" /\ "error" \in srvReply.keys)

CauseText ==
    IF Reqs[2].status # 200 THEN StatusText(Reqs[2].status)
    ELSE IF srvReply.kind = "garbage" THEN "Expecting value"
    ELSE srvReply.message

C4_ProtocolFailurePropagates ==
    LoginAccepted =>
        /\ Len(Reqs) = 2
        /\ Reqs[2].ep = "/jsonrpc" /\ Reqs[2].method = "protocol_version"
        /\ Reqs[2].params = <<>>
        /\ CallFailed =>
              /\ Raised("ProtocolError") /\ last.out.why = "no_jsonrpc"
              /\ last.out.cause = CauseText
        /\ (~CallFailed /\ srvVersion # PROTOCOL_VERSION) =>
              /\ Raised("ProtocolError") /\ last.out.why = "mismatch"
              /\ last.out.server = JInt(srvVersion)
              /\ last.out.client = PROTOCOL_VERSION
        /\ (~CallFailed /\ srvVersion = PROTOCOL_VERSION) => Returned(JBool(TRUE))

C4_Witness ==
    /\ LoginAccepted /\ Reqs[2].status = 404
    /\ Raised("ProtocolError") /\ last.out.why = "no_jsonrpc"
    /\ last.out.cause = "HTTP Error 404: Not Found"

-----------------------------------------------------------------------------
(* C5 as stated: the probe issues one GET of the index resource; 403 gives *)
(* false with no error and no cookie-file write; any other HTTP failure    *)
(* propagates as an error; a successful response gives true with the       *)
(* current cookies persisted to the cookie file.                           *)
C5_ProbeOutcomes ==
    last.op = "logged_in" =>
        /\ Len(Reqs) = 1 /\ Reqs[1].ep = "/index.html"
        /\ Reqs[1].status = 403 => (Returned(JBool(FALSE)) /\ last.saves = 0)
        /\ (Reqs[1].status # 403 /\ Reqs[1].status \notin 200..299)
              => (last.out.kind = "raise" /\ last.out.code = Reqs[1].status)
        /\ Reqs[1].status \in 200..299 => Returned(JBool(TRUE))

-----------------------------------------------------------------------------
(* C7: verify_logged_in_username returns false at once, without calling    *)
(* get_username, when the probe reports not logged in; otherwise it        *)
(* returns true exactly when the username the server returns equals the    *)
(* configured username, and false on mismatch.                             *)
C7_VerifyComparesUsername ==
    last.op = "verify_logged_in_username" =>
        /\ Len(Reqs) >= 1 /\ Reqs[1].ep = "/index.html"
        /\ Reqs[1].status = 403 => (Returned(JBool(FALSE)) /\ Len(Reqs) = 1)
        /\ Reqs[1].status = 200 =>
              /\ Len(Reqs) = 2
              /\ Reqs[2].ep = "/jsonrpc" /\ Reqs[2].method = "get_username"
              /\ (Reqs[2].status = 200 /\ srvReply = Auto) =>
                    /\ sessions[Reqs[2].cookie] = last.was => Returned(JBool(TRUE))
                    /\ sessions[Reqs[2].cookie] # last.was => Returned(JBool(FALSE))

C7_Witness ==
    /\ last.op = "verify_logged_in_username" /\ Returned(JBool(FALSE))
    /\ Len(Reqs) = 2 /\ Reqs[2].status = 200
    /\ sessions[Reqs[2].cookie] \in Users /\ sessions[Reqs[2].cookie] # last.was

-----------------------------------------------------------------------------
(* C6: login_prompt with ignore_cookie false and a session that validates  *)
(* returns true without a request to the login endpoint, without purging   *)
(* cookies and without prompting; with ignore_cookie true it issues no     *)
(* probe and always performs login; when the session does not validate it  *)
(* performs login with the supplied or prompted credentials and returns    *)
(* login's outcome.                                                        *)
Validated ==
    /\ Len(Reqs) >= 2
    /\ Reqs[1].ep = "/index.html" /\ Reqs[1].status = 200
    /\ Reqs[2].method = "get_username" /\ Reqs[2].status = 200
    /\ srvReply = Auto /\ sessions[Reqs[2].cookie] = last.was

NotValidated ==
    /\ Len(Reqs) >= 1 /\ Reqs[1].ep = "/index.html"
    /\ \/ Reqs[1].status = 403
       \/ /\ Reqs[1].status = 200 /\ Len(Reqs) >= 2 /\ Reqs[2].status = 200
          /\ srvReply = Auto /\ sessions[Reqs[2].cookie] # last.was

\* login was performed as the k-th request and the record ends as it ends
LoginPerformedAt(k) ==
    /\ Len(Reqs) >= k /\ Reqs[k].ep = "/login"
    /\ last.purges = 1
    /\ last.arg.u # NoUser => Reqs[k].params[1] = JStr(last.arg.u)
    /\ last.arg.p # "" => Reqs[k].params[2] = JStr(last.arg.p)
    /\ last.prompts = (IF last.arg.u = NoUser THEN <<"Username: ">> ELSE <<>>)
                      \o (IF last.arg.p = "" THEN <<"Password: ">> ELSE <<>>)
    /\ IF Reqs[k].status = 0 THEN Raised("URLError")
       ELSE IF HttpFailure(Reqs[k]) THEN Returned(JBool(FALSE)) /\ Len(Reqs) = k
       ELSE /\ Len(Reqs) = k + 1 /\ Reqs[k + 1].method = "protocol_version"
            /\ IF Reqs[k + 1].status = 200 /\ srvReply = Auto
                  /\ srvVersion = PROTOCOL_VERSION
               THEN Returned(JBool(TRUE)) /\ username = Reqs[k].params[1][2]
               ELSE Raised("ProtocolError")

C6_LoginPromptShortCircuits ==
    last.op = "login_prompt" =>
        /\ (~last.arg.ignore /\ Validated) =>
              /\ Returned(JBool(TRUE)) /\ Len(Reqs) = 2 /\ NoLoginRequest
              /\ last.purges = 0 /\ last.prompts = <<>>
        /\ last.arg.ignore =>
              /\ \A i \in 1..Len(Reqs) : Reqs[i].ep # "/index.html"
              /\ LoginPerformedAt(1)
        /\ (~last.arg.ignore /\ NotValidated) =>
              LoginPerformedAt(IF Reqs[1].status = 403 THEN 2 ELSE 3)

C6_Witness ==
    /\ last.op = "login_prompt" /\ ~last.arg.ignore /\ Validated
    /\ Returned(JBool(TRUE)) /\ NoLoginRequest /\ last.purges = 0

-----------------------------------------------------------------------------
(* The RPC specification: raw_call and the dispatch facade against a       *)
(* /jsonrpc endpoint that answers with every kind of body.                 *)

\* attribute lookup followed by the call: a defined name is the client's own
\* method (here purge_cookies), any other name goes through __getattr__
invoke(w, name, args, kwargs) ==
    IF name \in Defined
    THEN [w |-> purge_cookies(w), out |-> Ret(JNull)]
    ELSE getattr_call(w, name, args, kwargs)

Methods == {"ip_list", "rr_create", "get_username"}
ArgLists == {<<>>, <<JStr("10.0.0.1")>>, <<JStr("a"), JInt(1)>>,
             <<JStr("a"), JObj({<<"x", JInt(1)>>})>>}
KwargSets == {{}, {<<"limit", JInt(3)>>},
              {<<"limit", JInt(3)>>, <<"pool", JStr("p")>>}}

Messages == {"not found", "permission denied"}
Codes == {1, 3}
Results == {JNull, JInt(17), JInt(2147483647), JStr("alice"), JBool(FALSE),
            JObj({}), JList(<<>>), JList(<<JInt(1), JList(<<JNull>>)>>),
            JObj({<<"a", JObj({<<"b", JInt(2)>>})>>})}

Envelopes ==
    {Envelope({"error"}, m, c, JNull) : m \in Messages, c \in Codes}
    \cup {Envelope({"result"}, "", 0, r) : r \in Results}
    \cup {Envelope({"error", "result"}, m, 3, r) : m \in Messages, r \in {JNull, JInt(17)}}
    \cup {Envelope({}, "", 0, JNull)}

RawCall ==
    \E f \in Methods, args \in ArgLists :
        /\ Commit("raw_call", [NoArg EXCEPT !.name = f, !.args = args],
                  raw_call(World, f, args))
        /\ UNCHANGED <<server_url, srvVersion, srvFault, srvReply, srvList, cookie_file,
                       cookie_umask, lst>>

Invoke ==
    \E name \in Methods \cup {"purge_cookies"}, args \in ArgLists, kwargs \in KwargSets :
        /\ name \in Defined => (args = <<>> /\ kwargs = {})
        /\ Commit("invoke", [NoArg EXCEPT !.name = name, !.args = args,
                                          !.kwargs = kwargs],
                  invoke(World, name, args, kwargs))
        /\ UNCHANGED <<server_url, srvVersion, srvFault, srvReply, srvList, cookie_file,
                       cookie_umask, lst>>

\* a client that has logged in as alice, or has not logged in
InitRpc ==
    /\ server_url = Dotted
    /\ srvVersion = PROTOCOL_VERSION
    /\ srvFault = "none"
    /\ srvReply \in {Auto, HttpBody(404), HttpBody(500), Garbage} \cup Envelopes
    /\ srvList = [n |-> 3, batch |-> 2, mode |-> "honour"]
    /\ \E in \in BOOLEAN :
          /\ sessions = [t \in Tokens |-> IF in /\ t = 1 THEN "alice" ELSE NoUser]
          /\ jar = [session |-> IF in THEN [Cookie(1, FALSE) EXCEPT !.domain = Dotted.hostname]
                                   ELSE NoCookie]
    /\ username = "alice"
    /\ cookie_file = FALSE
    /\ cookie_umask = NoUmask
    /\ fs = NoFile
    /\ umask = Umask022
    /\ last = [op |-> "init", arg |-> NoArg, out |-> Ret(JNull), reqs |-> <<>>,
               prompts |-> <<>>, purges |-> 0, saves |-> 0, was |-> username,
               before |-> <<>>]
    /\ lst = Idle

NextRpc ==
    \/ RawCall
    \/ Invoke
    \/ Login
    \/ LoggedIn

SpecRpc == InitRpc /\ [][NextRpc]_vars

-----------------------------------------------------------------------------
(* C8: for every decoded response envelope of raw_call, an error key makes *)
(* raw_call raise DimError with exactly the server's message and code and  *)
(* return nothing; otherwise it returns the result value unchanged.        *)
C8_ErrorEnvelopeRaises ==
    (/\ last.op = "raw_call"
     /\ Len(Reqs) = 1 /\ Reqs[1].status = 200 /\ srvReply.kind = "envelope"
     /\ srvReply.keys # {})
        => IF "error" \in srvReply.keys
           THEN /\ Raised("DimError")
                /\ last.out.cause = srvReply.message
                /\ last.out.code = srvReply.code
           ELSE Returned(srvReply.result)

C8_Witness ==
    /\ last.op = "raw_call" /\ Raised("DimError")
    /\ srvReply.keys = {"error"}
    /\ last.out.cause = "not found" /\ last.out.code = 3

-----------------------------------------------------------------------------
(* C9: calling a method name that is not a defined client operation with   *)
(* positional arguments a1..an and named arguments k sends exactly one     *)
(* request to the RPC endpoint, with that name as method and with params   *)
(* [a1..an], or [a1..an, k] when k is not empty; a defined operation is    *)
(* never forwarded to the RPC endpoint.                                    *)
C9_UndefinedNameForwarded ==
    last.op = "invoke" =>
        IF last.arg.name \in {"login", "logged_in", "verify_logged_in_username",
                              "purge_cookies", "login_prompt", "ip_list_all",
                              "check_protocol_version", "raw_call", "call"}
        THEN Reqs = <<>>
        ELSE /\ Len(Reqs) = 1
             /\ Reqs[1].ep = "/jsonrpc"
             /\ Reqs[1].method = last.arg.name
             /\ Reqs[1].params =
                   (IF last.arg.kwargs = {} THEN last.arg.args
                    ELSE last.arg.args \o <<JObj(last.arg.kwargs)>>)

C9_Witness ==
    /\ last.op = "invoke" /\ last.arg.name = "ip_list"
    /\ last.arg.args = <<JStr("a"), JInt(1)>>
    /\ last.arg.kwargs = {<<"limit", JInt(3)>>}
    /\ Len(Reqs) = 1
    /\ Reqs[1].params = <<JStr("a"), JInt(1), JObj({<<"limit", JInt(3)>>})>>

-----------------------------------------------------------------------------
(* Pagination helper: ip_list_all, one action per turn of its loop *)

SetKey(obj, k, v) == {kv \in obj : kv[1] # k} \cup {<<k, v>>}

\* total = options.get('limit', 10); result = []
list_enter(options) ==
    [pc |-> "loop",
     total |-> IF HasKey(options, "limit") THEN Get(options, "limit")[2] ELSE 10,
     options |-> options, result |-> <<>>, batches |-> <<>>, reqs |-> <<>>,
     out |-> Ret(JNull)]

\* mutant: the cursor is taken from the first item of the batch
list_turn_first_cursor(f, r) ==
    IF ~(Len(f.result) < f.total)
    THEN [f EXCEPT !.pc = "done", !.out = Ret(JList(f.result))]
    ELSE LET g == [f EXCEPT !.reqs = @ \o r.w.reqs] IN
         IF r.out.kind = "raise" THEN [g EXCEPT !.pc = "done", !.out = r.out]
         ELSE LET batch == r.out.val[2] IN
              IF Len(batch) = 0
              THEN [g EXCEPT !.pc = "done", !.out = Ret(JList(f.result)),
                             !.batches = Append(@, batch)]
              ELSE IF ~HasKey(f.options, "limit")
              THEN [g EXCEPT !.pc = "done", !.result = @ \o batch,
                             !.batches = Append(@, batch),
                             !.out = Raise("KeyError", "'limit'", 0)]
              ELSE [g EXCEPT !.result = @ \o batch,
                             !.batches = Append(@, batch),
                             !.options =
                                SetKey(SetKey(@, "limit",
                                              JInt(Get(f.options, "limit")[2] - Len(batch))),
                                       "after", Get(batch[1][2], "ip"))]

\* mutant: the limit is not decremented
list_turn_keeps_limit(f, r) ==
    IF ~(Len(f.result) < f.total)
    THEN [f EXCEPT !.pc = "done", !.out = Ret(JList(f.result))]
    ELSE LET g == [f EXCEPT !.reqs = @ \o r.w.reqs] IN
         IF r.out.kind = "raise" THEN [g EXCEPT !.pc = "done", !.out = r.out]
         ELSE LET batch == r.out.val[2] IN
              IF Len(batch) = 0
              THEN [g EXCEPT !.pc = "done", !.out = Ret(JList(f.result)),
                             !.batches = Append(@, batch)]
              ELSE IF ~HasKey(f.options, "limit")
              THEN [g EXCEPT !.pc = "done", !.result = @ \o batch,
                             !.batches = Append(@, batch),
                             !.out = Raise("KeyError", "'limit'", 0)]
              ELSE [g EXCEPT !.result = @ \o batch,
                             !.batches = Append(@, batch),
                             !.options =
                                SetKey(SetKey(@, "limit",
                                              JInt(Get(f.options, "limit")[2])),
                                       "after", Get(batch[Len(batch)][2], "ip"))]

\* mutant: the batch replaces the accumulated items
list_turn_replaces(f, r) ==
    IF ~(Len(f.result) < f.total)
    THEN [f EXCEPT !.pc = "done", !.out = Ret(JList(f.result))]
    ELSE LET g == [f EXCEPT !.reqs = @ \o r.w.reqs] IN
         IF r.out.kind = "raise" THEN [g EXCEPT !.pc = "done", !.out = r.out]
         ELSE LET batch == r.out.val[2] IN
              IF Len(batch) = 0
              THEN [g EXCEPT !.pc = "done", !.out = Ret(JList(f.result)),
                             !.batches = Append(@, batch)]
              ELSE IF ~HasKey(f.options, "limit")
              THEN [g EXCEPT !.pc = "done", !.result = @ \o batch,
                             !.batches = Append(@, batch),
                             !.out = Raise("KeyError", "'limit'", 0)]
              ELSE [g EXCEPT !.result = batch,
                             !.batches = Append(@, batch),
                             !.options =
                                SetKey(SetKey(@, "limit",
                                              JInt(Get(f.options, "limit")[2] - Len(batch))),
                                       "after", Get(batch[Len(batch)][2], "ip"))]

\* one evaluation of the while condition and, when it holds, of the body;
\* r: the outcome of self.ip_list with the options as keyword arguments
list_turn(f, r) ==
    IF ~(Len(f.result) < f.total)
    THEN [f EXCEPT !.pc = "done", !.out = Ret(JList(f.result))]
    ELSE LET g == [f EXCEPT !.reqs = @ \o r.w.reqs] IN
         IF r.out.kind = "raise" THEN [g EXCEPT !.pc = "done", !.out = r.out]
         ELSE LET batch == r.out.val[2] IN
              IF Len(batch) = 0
              THEN [g EXCEPT !.pc = "done", !.out = Ret(JList(f.result)),
                             !.batches = Append(@, batch)]
              ELSE IF ~HasKey(f.options, "limit")
              THEN [g EXCEPT !.pc = "done", !.result = @ \o batch,
                             !.batches = Append(@, batch),
                             !.out = Raise("KeyError", "'limit'", 0)]
              ELSE [g EXCEPT !.result = @ \o batch,
                             !.batches = Append(@, batch),
                             !.options =
                                SetKey(SetKey(@, "limit",
                                              JInt(Get(f.options, "limit")[2] - Len(batch))),
                                       "after", Get(batch[Len(batch)][2], "ip"))]

Limits == {0, 5, 25}
OptionSets == {{}} \cup {{<<"limit", JInt(n)>>} : n \in Limits}
                   \cup {{<<"limit", JInt(5)>>, <<"pool", JStr("p")>>}}

ListStart ==
    \E options \in OptionSets :
        /\ lst.pc # "loop"
        /\ lst' = list_enter(options)
        /\ UNCHANGED <<server_url, srvVersion, srvFault, srvReply, srvList, sessions, username,
                       jar, cookie_file, cookie_umask, fs, umask, last>>

ListTurn ==
    /\ lst.pc = "loop"
    /\ LET r == IF Len(lst.result) < lst.total
                THEN getattr_call(World, "ip_list", <<>>, lst.options)
                ELSE [w |-> World, out |-> Ret(JNull)]
           f == list_turn(lst, r)
       IN  /\ lst' = f
           /\ jar' = r.w.jar
           /\ last' = IF f.pc = "done"
                      THEN Record("ip_list_all", NoArg, f.out, [r.w EXCEPT !.reqs = f.reqs])
                      ELSE last
    /\ UNCHANGED <<server_url, srvVersion, srvFault, srvReply, srvList, sessions, username,
                   cookie_file, cookie_umask, fs, umask>>

ListServers ==
    {[n |-> n, batch |-> b, mode |-> m] :
        n \in {0, 3, 30}, b \in {2, 10}, m \in {"honour", "fixed", "repeat"}}

\* a client logged in as alice, against one paged server
InitList ==
    /\ server_url = Dotted
    /\ srvVersion = PROTOCOL_VERSION
    /\ srvFault = "none"
    /\ srvReply \in {Auto, HttpBody(500)}
    /\ srvList \in ListServers
    /\ sessions = [t \in Tokens |-> IF t = 1 THEN "alice" ELSE NoUser]
    /\ jar = [session |-> [Cookie(1, FALSE) EXCEPT !.domain = Dotted.hostname]]
    /\ username = "alice"
    /\ cookie_file = FALSE
    /\ cookie_umask = NoUmask
    /\ fs = NoFile
    /\ umask = Umask022
    /\ last = [op |-> "init", arg |-> NoArg, out |-> Ret(JNull), reqs |-> <<>>,
               prompts |-> <<>>, purges |-> 0, saves |-> 0, was |-> username,
               before |-> <<>>]
    /\ lst = Idle

NextList ==
    \/ ListStart
    \/ ListTurn

SpecList == InitList /\ [][NextList]_vars

-----------------------------------------------------------------------------
(* C10: ip_list_all(limit=25) against a paged server that returns batches  *)
(* of 10 items per call (3 full batches, then an empty batch) returns      *)
(* exactly 25 items in the server's order and issues exactly 3 listing     *)
(* calls, each call after the first carrying as 'after' the 'ip' of the    *)
(* last item of the previous batch.                                        *)
(* The code never truncates: the third full batch makes 30 items.          *)
TenPerCall == srvList = [n |-> 30, batch |-> 10, mode |-> "fixed"] /\ srvReply = Auto

CursorsFollow ==
    \A k \in 2..Len(lst.reqs) :
        /\ Len(lst.reqs[k].params) = 1
        /\ HasKey(lst.reqs[k].params[1][2], "after")
        /\ Get(lst.reqs[k].params[1][2], "after")
              = Get(lst.batches[k - 1][Len(lst.batches[k - 1])][2], "ip")

C10_Limit25ThreeCalls ==
    (lst.pc = "done" /\ lst.total = 25 /\ TenPerCall) =>
        /\ lst.out.kind = "return"
        /\ lst.out.val = JList([i \in 1..25 |-> Item(i)])
        /\ Len(lst.reqs) = 3
        /\ CursorsFollow

-----------------------------------------------------------------------------
(* C11: ip_list_all called without a 'limit' option uses a target count of *)
(* 10: against every server that has at least one item it returns          *)
(* normally with the items of the batches it received, having stopped      *)
(* once 10 items were collected or the server returned an empty batch.     *)
(* The code decrements options['limit'] after the first batch, and the     *)
(* key is not there: KeyError.                                             *)
Concat(batches) ==
    LET RECURSIVE cat(_)
        cat(k) == IF k = 0 THEN <<>> ELSE cat(k - 1) \o batches[k]
    IN  cat(Len(batches))

C11_DefaultLimitTen ==
    (/\ lst.pc = "done" /\ ~HasKey(lst.options, "limit")
     /\ srvReply = Auto /\ srvList.n >= 1)
        => /\ lst.total = 10
           /\ lst.out.kind = "return"
           /\ lst.out.val = JList(Concat(lst.batches))
           /\ \/ Len(lst.out.val[2]) >= 10
              \/ lst.batches[Len(lst.batches)] = <<>>

-----------------------------------------------------------------------------
(* C12: ip_list_all(limit=5) against a server that holds only 3 items and  *)
(* hands them out in one batch returns exactly those 3 items, in order,    *)
(* after one non-empty batch followed by one empty batch, with 2 listing   *)
(* calls; the second call carries limit 2 and an 'after' cursor equal to   *)
(* the third item's 'ip'.                                                  *)
AllAtOnce ==
    /\ srvList.n = 3 /\ srvList.batch >= 3 /\ srvList.mode # "repeat"
    /\ srvReply = Auto

\* the options mapping the k-th listing call was sent
ListParams(k) == lst.reqs[k].params[Len(lst.reqs[k].params)][2]

C12_ThreeItemsTwoCalls ==
    (lst.pc = "done" /\ lst.total = 5 /\ AllAtOnce) =>
        /\ lst.out = Ret(JList([i \in 1..3 |-> Item(i)]))
        /\ lst.batches = <<[i \in 1..3 |-> Item(i)], <<>>>>
        /\ Len(lst.reqs) = 2
        /\ \A k \in 1..2 : lst.reqs[k].method = "ip_list" /\ Len(lst.reqs[k].params) = 1
        /\ Get(ListParams(1), "limit") = JInt(5) /\ ~HasKey(ListParams(1), "after")
        /\ Get(ListParams(2), "limit") = JInt(2)
        /\ Get(ListParams(2), "after") = Get(Item(3)[2], "ip")

C12_Witness ==
    /\ lst.pc = "done" /\ lst.total = 5 /\ AllAtOnce
    /\ lst.out = Ret(JList([i \in 1..3 |-> Item(i)]))
    /\ Len(lst.reqs) = 2
    /\ Get(ListParams(2), "limit") = JInt(2)

-----------------------------------------------------------------------------
(* C18: ip_list_all with an explicit finite limit terminates for every     *)
(* server behaviour in which each listing call returns, a server that      *)
(* ignores the cursor and repeats the same batch included: every turn of   *)
(* the loop either ends the loop or strictly increases the number of       *)
(* accumulated items, at most 'limit' listing calls return items, and a    *)
(* loop that keeps being scheduled reaches its end.                        *)
SpecListFair == SpecList /\ WF_vars(ListTurn)

ExplicitLimit == HasKey(lst.options, "limit")

NonEmpty(batches) == {k \in 1..Len(batches) : batches[k] # <<>>}

C18_ListTerminates ==
    /\ [][(lst.pc = "loop" /\ ExplicitLimit)
             => (lst'.pc = "done" \/ Len(lst'.result) > Len(lst.result))]_vars
    /\ []((lst.pc # "idle" /\ ExplicitLimit)
             => Cardinality(NonEmpty(lst.batches)) <= lst.total)
    /\ ((lst.pc = "loop" /\ ExplicitLimit) ~> (lst.pc = "done"))

C18_Witness ==
    /\ lst.pc = "done" /\ ExplicitLimit /\ lst.total = 25
    /\ srvList = [n |-> 3, batch |-> 2, mode |-> "repeat"] /\ srvReply = Auto
    /\ lst.out.kind = "return"
    /\ Len(lst.batches) = 13

-----------------------------------------------------------------------------
(* C19: in ip_list_all with an explicit limit L, at every listing call the *)
(* 'limit' option sent plus the number of items accumulated so far equals  *)
(* L; if the server never returns more items than the limit it was sent,   *)
(* the returned sequence has at most L items; and the returned sequence is *)
(* the concatenation of the received batches in call order.                *)
SubSeqTo(s, k) == [i \in 1..k |-> s[i]]

\* the batch the k-th call received is within the limit the call carried
WithinLimit(k) == Len(lst.batches[k]) <= Get(ListParams(k), "limit")[2]

C19_LimitPlusCollectedIsL ==
    (lst.pc # "idle" /\ ExplicitLimit) =>
        /\ \A k \in 1..Len(lst.reqs) :
              /\ HasKey(ListParams(k), "limit")
              /\ Get(ListParams(k), "limit")[2]
                    + Len(Concat(SubSeqTo(lst.batches, Min(k - 1, Len(lst.batches)))))
                 = lst.total
        /\ lst.result = Concat(lst.batches)
        /\ (lst.pc = "done" /\ lst.out.kind = "return") =>
              /\ lst.out.val = JList(Concat(lst.batches))
              /\ (\A k \in 1..Len(lst.batches) : WithinLimit(k))
                    => Len(lst.out.val[2]) <= Max(lst.total, 0)

C19_Witness ==
    /\ lst.pc = "done" /\ ExplicitLimit /\ lst.total = 25
    /\ srvList = [n |-> 30, batch |-> 10, mode |-> "honour"] /\ srvReply = Auto
    /\ Len(lst.reqs) = 3
    /\ Get(ListParams(3), "limit") = JInt(5)
    /\ Len(lst.out.val[2]) = 25

-----------------------------------------------------------------------------
(* C16: no operation retries.  Each raw_call performs exactly one          *)
(* request/response round trip whether it succeeds, raises an HTTP error   *)
(* or raises an RPC error; a failed login or failed probe sends no second  *)
(* request of the same kind; a successful login sends exactly one login    *)
(* POST followed by exactly one protocol_version RPC.                      *)
Sent(ep, method) ==
    {i \in 1..Len(Reqs) : Reqs[i].ep = ep /\ Reqs[i].method = method}

C16_NoRetry ==
    /\ last.op = "raw_call" =>
          /\ Len(Reqs) = 1 /\ Reqs[1].ep = "/jsonrpc"
          /\ Reqs[1].method = last.arg.name /\ Reqs[1].params = last.arg.args
    /\ last.op = "login" =>
          /\ Cardinality(Sent("/login", "")) = 1
          /\ Cardinality(Sent("/jsonrpc", "protocol_version")) <= 1
          /\ Len(Reqs) <= 2
          /\ Returned(JBool(TRUE)) =>
                /\ Len(Reqs) = 2
                /\ Reqs[1].ep = "/login"
                /\ Reqs[2].ep = "/jsonrpc" /\ Reqs[2].method = "protocol_version"
          /\ Returned(JBool(FALSE)) => Len(Reqs) = 1
    /\ last.op = "logged_in" => (Len(Reqs) = 1 /\ Reqs[1].ep = "/index.html")

C16_Witness ==
    /\ last.op = "raw_call" /\ Raised("HTTPError") /\ last.out.code = 500
    /\ Len(Reqs) = 1

-----------------------------------------------------------------------------
(* C14: with a cookie file configured, after every completed login         *)
(* (returning true, returning false or raising) and every logged_in probe  *)
(* the session cookies stored in the file equal the session cookies held   *)
(* in memory.  The comparison is with what a save of the jar writes, so a  *)
(* cookie without expiry, which no save writes, does not count against     *)
(* the claim.  The code saves only at the end of a successful login or     *)
(* probe: a login that returns false or raises has purged the jar and      *)
(* leaves the file as it was.                                              *)
C14_FileMirrorsMemory ==
    (cookie_file /\ last.op \in {"login", "logged_in"})
        => fs.cookies = lwp_str(jar)

-----------------------------------------------------------------------------
(* C17: a login that returns false or raises ProtocolError leaves the      *)
(* stored username and the cookie file exactly as they were before the     *)
(* call, and a login that returns true leaves the username equal to the    *)
(* username argument.                                                      *)
C17_LoginChangesOnlyOnSuccess ==
    [][last'.op = "login" =>
          /\ (\/ last'.out = Ret(JBool(FALSE))
              \/ (last'.out.kind = "raise" /\ last'.out.exc = "ProtocolError"))
                => (username' = username /\ fs' = fs)
          /\ last'.out = Ret(JBool(TRUE)) => username' = last'.arg.u]_vars

C17_Witness ==
    /\ last.op = "login" /\ Raised("ProtocolError")
    /\ last.arg.u # username /\ last.was = username
    /\ cookie_file /\ ~fs.exists
    /\ jar.session # NoCookie

-----------------------------------------------------------------------------
(* The cookie-store specification: a client with a cookie file, with or    *)
(* without a umask override, against a healthy server.  The file may exist *)
(* beforehand with permissive bits, the file system may refuse the write,  *)
(* and the server is addressed by a dotted or a dotless host name.         *)

Mode666 == {"ur", "uw", "gr", "gw", "or", "ow"}

\* a cookie file left by an earlier run: no cookies, mode 0644
PermissiveFile == [exists |-> TRUE, cookies |-> EmptyJar, mode |-> Mode644,
                   writable |-> TRUE]

\* the file system starts or stops refusing to open the cookie file for writing
FsFlip ==
    /\ fs' = [fs EXCEPT !.writable = ~@]
    /\ last' = Record("fs", NoArg, Ret(JNull), World)
    /\ UNCHANGED <<server_url, srvVersion, srvFault, srvReply, srvList, sessions,
                   username, jar, cookie_file, cookie_umask, umask, lst>>

InitStore ==
    /\ server_url \in Urls
    /\ srvVersion = PROTOCOL_VERSION
    /\ srvFault = "none"
    /\ srvReply = Auto
    /\ srvList = NoList
    /\ sessions = [t \in Tokens |-> NoUser]
    /\ username = "alice"
    /\ cookie_file = TRUE
    /\ cookie_umask \in {NoUmask, Umask077}
    /\ fs \in {NoFile, PermissiveFile}
    /\ jar = EmptyJar
    /\ umask = Umask022
    /\ last = [op |-> "init", arg |-> NoArg, out |-> Ret(JNull), reqs |-> <<>>,
               prompts |-> <<>>, purges |-> 0, saves |-> 0, was |-> username,
               before |-> <<>>]
    /\ lst = Idle

NextStore ==
    \/ Login
    \/ LoggedIn
    \/ PurgeCookies
    \/ NewClient
    \/ ServerExpire
    \/ FsFlip

SpecStore == InitStore /\ [][NextStore]_vars

-----------------------------------------------------------------------------
(* C13: when a umask override is configured, after _update_cookie_file     *)
(* ends, whether the write succeeded or raised, the process umask equals   *)
(* its value before the call.                                              *)
(* The code restores the umask in the statement after save(), not in a     *)
(* finally clause: a save that raises leaves the override installed.       *)
C13_UmaskRestored ==
    [][(/\ cookie_umask # NoUmask
        /\ last'.op \in {"login", "logged_in"}
        /\ last'.saves > 0)
          => umask' = umask]_vars

-----------------------------------------------------------------------------
(* C15: after any login that saves cookies, with a umask override the file *)
(* mode has none of the bits the umask clears, both when the save created  *)
(* the file and when the file already existed with permissive bits;        *)
(* without an override the file has the bits the process umask allows.     *)
(* save() truncates an existing file and leaves its mode alone.            *)
C15_RestrictiveMode ==
    (last.op = "login" /\ Returned(JBool(TRUE)) /\ last.saves = 1 /\ fs.exists) =>
        IF cookie_umask # NoUmask
        THEN fs.mode \cap cookie_umask = {}
        ELSE fs.mode \subseteq (Mode666 \ umask)

-----------------------------------------------------------------------------
(* C20: login purges the in-memory session cookie before submitting the    *)
(* credentials, so after a login that returns false the client holds no    *)
(* session cookie in memory, whether or not it held a valid session before *)
(* the call; a purge with no session cookie to remove is not an error.     *)
(* The purge names the domain urlparse gives, and the jar has stored the   *)
(* cookie of a dotless host under "<host>.local": that cookie stays.       *)
C20_LoginFalseHoldsNoSession ==
    /\ (last.op = "login" /\ Returned(JBool(FALSE))) => jar.session = NoCookie
    /\ last.op = "purge_cookies" => last.out = Ret(JNull)

====
